---- MODULE Spec2Model ----
(***************************************************************************)
(* The tire market dashboard of src/app.py as a state machine.             *)
(*                                                                         *)
(* The script is re-executed from its first line to its last on every      *)
(* interaction.  The state is the loaded table, the values of the three    *)
(* selectboxes and every value the script computes and hands to a chart,   *)
(* a metric, a table or a text list.  One action per widget the user can   *)
(* change; each action is one whole run of the script.                     *)
(*                                                                         *)
(* Numbers.  Sales are integers.  A share of market is a fraction k /      *)
(* SomUnit stored as its numerator k; means and percentages are exact      *)
(* rationals [nan, num, den]; nan is the float NaN pandas returns for the  *)
(* mean of no values.                                                      *)
(***************************************************************************)
EXTENDS Integers, Sequences, FiniteSets, TLC

\* ---------------------------------------------------------------- bounds

\* Longest table drawn from a row pool.
MaxRows == 3

\* A share of market k / SomUnit, k in 0 .. SomUnit, is a fraction in [0, 1].
SomUnit == 4

\* Extra competitor brands, beyond the cut-off, in the generated long tables.
Beyond == 1

\* ------------------------------------------------------ program constants

\* .head(35)
RANKING_HEAD == 35

\* .head(10)
TOP_HEAD == 10

\* fitments[:5]
FITMENTS_HEAD == 5

\* ----------------------------------------------------------------- values

\* A missing value of a text column (pandas NaN).
NaN == "NaN"

\* What st.selectbox returns when it has no options.
None == "None"

Min(a, b) == IF a < b THEN a ELSE b

Pow10(d) == IF d = 2 THEN 100 ELSE IF d = 4 THEN 10000 ELSE 1

\* The mean of no values.
NanValue == [nan |-> TRUE, num |-> 0, den |-> 1]

Ratio(n, d) == [nan |-> FALSE, num |-> n, den |-> d]

\* Competitor brand names, in the order Python compares strings.
BrandName(i) == IF i < 10 THEN "B0" \o ToString(i) ELSE "B" \o ToString(i)

NBrandNames == RANKING_HEAD + Beyond + 1

BrandNames == [i \in 1..NBrandNames |-> BrandName(i)]

\* ------------------------------------------------------- pandas operators

\* df[[cols]]
Columns(t, cols) == [i \in 1..Len(t) |-> [k \in cols |-> t[i][k]]]

\* df[col]
Column(t, col) == [i \in 1..Len(t) |-> t[i][col]]

\* .drop_duplicates(): the first occurrence of every row, in order.
RECURSIVE drop_duplicates(_)
drop_duplicates(t) ==
    IF t = <<>> THEN <<>>
    ELSE LET init == drop_duplicates(SubSeq(t, 1, Len(t) - 1))
             last == t[Len(t)]
         IN  IF \E i \in 1..Len(init) : init[i] = last THEN init
             ELSE Append(init, last)

\* .head(n)
head(t, n) == SubSeq(t, 1, Min(n, Len(t)))

RECURSIVE SumSeq(_)
SumSeq(s) == IF s = <<>> THEN 0 ELSE s[1] + SumSeq(Tail(s))

RECURSIVE MaxSeq(_)
MaxSeq(s) ==
    IF Len(s) = 1 THEN s[1]
    ELSE LET m == MaxSeq(Tail(s)) IN IF s[1] >= m THEN s[1] ELSE m

\* The group keys of groupby(col), which sorts them (sort=True): the names
\* that occur, in the order Python compares strings.
SortedKeys(S) == SelectSeq(BrandNames, LAMBDA b : b \in S)


\* GroupKeys of groupby(col, sort=False): the keys in order of first
\* occurrence.
GroupKeysFirstSeen(t, col) == drop_duplicates(Column(t, col))

GroupKeys(t, col) == SortedKeys({t[i][col] : i \in 1..Len(t)})

\* The rows of one group, in table order.
Group(t, col, key) == SelectSeq(t, LAMBDA r : r[col] = key)

\* .sort_values(by=by, ascending=False) with the default kind="quicksort",
\* which is not a stable sort: the order of rows with equal keys is the
\* sort implementation's.  ties = "kept": equal keys stay in input order;
\* ties = "reversed": equal keys come out in the reverse of input order.
RECURSIVE sort_values(_, _, _)
sort_values(t, by, ties) ==
    IF t = <<>> THEN <<>>
    ELSE LET rest == sort_values(SubSeq(t, 1, Len(t) - 1), by, ties)
             x == t[Len(t)]
             n == Cardinality({i \in 1..Len(rest) :
                     IF ties = "kept" THEN rest[i][by] >= x[by]
                     ELSE rest[i][by] > x[by]})
         IN  SubSeq(rest, 1, n) \o <<x>> \o SubSeq(rest, n + 1, Len(rest))

\* .unique(): the distinct values in order of first occurrence.
unique(s) == drop_duplicates(s)


\* dropna that drops nothing.
keepna(s) == s

\* .dropna() on a column of values.
dropna(s) == SelectSeq(s, LAMBDA v : v # NaN)

\* .mean() of a column of share numerators: NaN for no values.
mean(s) == IF s = <<>> THEN NanValue ELSE Ratio(SumSeq(s), Len(s) * SomUnit)

\* f"{x * 100:.{d}f}%": x * 100 rounded to d decimals, half to even.
FormatPercent(x, d) ==
    IF x.nan THEN "nan%"
    ELSE LET p == x.num * 100 * Pow10(d)
             q == p \div x.den
             r == p % x.den
             h == IF 2 * r > x.den \/ (2 * r = x.den /\ q % 2 = 1)
                  THEN q + 1 ELSE q
             f == h % Pow10(d)
             pad == IF d = 4
                    THEN (IF f < 10 THEN "000" ELSE IF f < 100 THEN "00"
                          ELSE IF f < 1000 THEN "0" ELSE "")
                    ELSE (IF f < 10 THEN "0" ELSE "")
         IN  ToString(h \div Pow10(d)) \o "." \o pad \o ToString(f) \o "%"


\* selectbox that returns the value the session holds even when it is not
\* one of the options.
selectboxSticky(options, state) ==
    IF options = <<>> THEN None
    ELSE IF state.value # None THEN state.value ELSE options[1]

\* st.selectbox(label, options): no options, None; the value the session
\* holds for this widget when the widget is the same one (same options) and
\* holds one of them; the first option otherwise.
selectbox(options, state) ==
    IF options = <<>> THEN None
    ELSE IF state.options = options
            /\ \E i \in 1..Len(options) : options[i] = state.value
         THEN state.value
         ELSE options[1]

\* ------------------------------------------------- the script, top to bottom


\* Filter with the two conditions joined by | instead of &.
FilterEither(table, c, s) ==
    SelectSeq(table, LAMBDA r : r.COUNTRY_OR_TERRITORY = c \/ r.TIRE_SIZE = s)

\* df[(df["COUNTRY_OR_TERRITORY"] == c) & (df["TIRE_SIZE"] == s)]
Filter(table, c, s) ==
    SelectSeq(table, LAMBDA r : r.COUNTRY_OR_TERRITORY = c /\ r.TIRE_SIZE = s)

\* .melt(var_name="Sales Type", value_name="Sales Value")
melt(t) ==
    [i \in 1..Len(t) |-> [Sales_Type |-> "TOTAL_INDUSTRY_SALES",
                          Sales_Value |-> t[i].TOTAL_INDUSTRY_SALES]]
    \o
    [i \in 1..Len(t) |-> [Sales_Type |-> "GOODYEAR_SALES",
                          Sales_Value |-> t[i].GOODYEAR_SALES]]


\* SalesData without .drop_duplicates().
SalesDataAllRows(f) ==
    melt(Columns(f, {"TOTAL_INDUSTRY_SALES", "GOODYEAR_SALES"}))

SalesData(f) ==
    melt(drop_duplicates(Columns(f, {"TOTAL_INDUSTRY_SALES", "GOODYEAR_SALES"})))

MarketShare(f) ==
    mean(Column(drop_duplicates(Columns(f, {"SOM_OF_BRAND"})), "SOM_OF_BRAND"))

\* f"{market_share * 100:.2f}%"
Metric(share) == FormatPercent(share, 2)


\* CompetitorSales without .drop_duplicates().
CompetitorSalesAllRows(f, ties) ==
    LET pairs == Columns(f, {"COMPETITOR_BRAND", "COMPETITOR_BRAND_SALES"})
        keys == GroupKeys(pairs, "COMPETITOR_BRAND")
        sums == [i \in 1..Len(keys) |->
                    [COMPETITOR_BRAND |-> keys[i],
                     COMPETITOR_BRAND_SALES |->
                         SumSeq(Column(Group(pairs, "COMPETITOR_BRAND", keys[i]),
                                       "COMPETITOR_BRAND_SALES"))]]
    IN  head(sort_values(sums, "COMPETITOR_BRAND_SALES", ties), RANKING_HEAD)

CompetitorSales(f, ties) ==
    LET pairs == drop_duplicates(
                     Columns(f, {"COMPETITOR_BRAND", "COMPETITOR_BRAND_SALES"}))
        keys == GroupKeys(pairs, "COMPETITOR_BRAND")
        sums == [i \in 1..Len(keys) |->
                    [COMPETITOR_BRAND |-> keys[i],
                     COMPETITOR_BRAND_SALES |->
                         SumSeq(Column(Group(pairs, "COMPETITOR_BRAND", keys[i]),
                                       "COMPETITOR_BRAND_SALES"))]]
    IN  head(sort_values(sums, "COMPETITOR_BRAND_SALES", ties), RANKING_HEAD)

\* (COUNT / total_brands) * 100
Percentage(count, total) ==
    IF total = 0 THEN NanValue ELSE Ratio(count * 100, total)

BrandCounts(f, ties) ==
    LET names == dropna(Column(f, "BRAND_NAME"))
        keys == unique(names)
        counts == [i \in 1..Len(keys) |->
                      [BRAND_NAME |-> keys[i],
                       COUNT |-> Cardinality({j \in 1..Len(names) :
                                                 names[j] = keys[i]})]]
        sorted == sort_values(counts, "COUNT", ties)
        total_brands == SumSeq(Column(sorted, "COUNT"))
    IN  [i \in 1..Len(sorted) |->
            [BRAND_NAME |-> sorted[i].BRAND_NAME,
             COUNT |-> sorted[i].COUNT,
             PERCENTAGE |-> Percentage(sorted[i].COUNT, total_brands)]]


\* TopCompetitors with the sales aggregated by "sum" instead of "max".
TopCompetitorsSummed(f, ties) ==
    LET rows == drop_duplicates(
                    Columns(f, {"COMPETITOR_BRAND", "COMPETITOR_BRAND_SALES",
                                "COMPETITOR_SOM"}))
        keys == GroupKeys(rows, "COMPETITOR_BRAND")
        agg == [i \in 1..Len(keys) |->
                   LET g == Group(rows, "COMPETITOR_BRAND", keys[i])
                   IN  [COMPETITOR_BRAND |-> keys[i],
                        COMPETITOR_BRAND_SALES |->
                            SumSeq(Column(g, "COMPETITOR_BRAND_SALES")),
                        COMPETITOR_SOM |->
                            FormatPercent(mean(Column(g, "COMPETITOR_SOM")), 4)]]
    IN  head(sort_values(agg, "COMPETITOR_BRAND_SALES", ties), TOP_HEAD)

TopCompetitors(f, ties) ==
    LET rows == drop_duplicates(
                    Columns(f, {"COMPETITOR_BRAND", "COMPETITOR_BRAND_SALES",
                                "COMPETITOR_SOM"}))
        keys == GroupKeys(rows, "COMPETITOR_BRAND")
        agg == [i \in 1..Len(keys) |->
                   LET g == Group(rows, "COMPETITOR_BRAND", keys[i])
                   IN  [COMPETITOR_BRAND |-> keys[i],
                        COMPETITOR_BRAND_SALES |->
                            MaxSeq(Column(g, "COMPETITOR_BRAND_SALES")),
                        COMPETITOR_SOM |->
                            FormatPercent(mean(Column(g, "COMPETITOR_SOM")), 4)]]
    IN  head(sort_values(agg, "COMPETITOR_BRAND_SALES", ties), TOP_HEAD)

\* if not df_top_competitors.empty: the two callouts of .iloc[0]
TopCompetitor(top) ==
    IF top = <<>> THEN <<>>
    ELSE <<top[1].COMPETITOR_BRAND, top[1].COMPETITOR_SOM>>

PatternSales(f, competitor) ==
    drop_duplicates(
        Columns(SelectSeq(f, LAMBDA r : r.COMPETITOR_BRAND = competitor),
                {"COMPETITOR_PATTERN", "COMPETITOR_PATTERN_SALES"}))

Fitments(f) == head(unique(dropna(Column(f, "TOP_5_FITMENTS"))), FITMENTS_HEAD)

\* One run of the script over the loaded table.  `session` is the state of
\* the three selectboxes as the browser sends it: for each, the options it
\* was rendered with and its value.
Script(table, ties, session) ==
    LET countries == unique(Column(table, "COUNTRY_OR_TERRITORY"))
        sizes == unique(Column(table, "TIRE_SIZE"))
        c == selectbox(countries, session.countries)
        s == selectbox(sizes, session.tire_size)
        f == Filter(table, c, s)
        share == MarketShare(f)
        top == TopCompetitors(f, ties)
        competitors == unique(Column(top, "COMPETITOR_BRAND"))
        competitor == selectbox(competitors, session.competitor)
    IN  [countries |-> countries,
         tire_sizes |-> sizes,
         selected_countries |-> c,
         selected_tire_size |-> s,
         df_filtered |-> f,
         sales_data |-> SalesData(f),
         market_share |-> share,
         metric |-> Metric(share),
         df_competitor_sales |-> CompetitorSales(f, ties),
         brand_counts |-> BrandCounts(f, ties),
         df_top_competitors |-> top,
         top_competitor |-> TopCompetitor(top),
         competitors |-> competitors,
         selected_competitor |-> competitor,
         df_pattern_sales |-> PatternSales(f, competitor),
         fitments |-> Fitments(f)]

\* The widget state a page holds after a run.
Widgets(v) ==
    [countries |-> [options |-> v.countries, value |-> v.selected_countries],
     tire_size |-> [options |-> v.tire_sizes, value |-> v.selected_tire_size],
     competitor |-> [options |-> v.competitors, value |-> v.selected_competitor]]

\* A browser session that has not rendered the page yet.
NoWidgets ==
    [countries |-> [options |-> <<>>, value |-> None],
     tire_size |-> [options |-> <<>>, value |-> None],
     competitor |-> [options |-> <<>>, value |-> None]]

\* ---------------------------------------------------------------- datasets

Row(c, s, tis, gys, som, cb, cbs, csom, bn, pat, pats, fit) ==
    [COUNTRY_OR_TERRITORY |-> c, TIRE_SIZE |-> s,
     TOTAL_INDUSTRY_SALES |-> tis, GOODYEAR_SALES |-> gys, SOM_OF_BRAND |-> som,
     COMPETITOR_BRAND |-> cb, COMPETITOR_BRAND_SALES |-> cbs,
     COMPETITOR_SOM |-> csom, BRAND_NAME |-> bn,
     COMPETITOR_PATTERN |-> pat, COMPETITOR_PATTERN_SALES |-> pats,
     TOP_5_FITMENTS |-> fit]

\* Rows that differ in country (also in case only), tire size and the
\* market figures of the pair.
MarketRows ==
    {Row(c, s, 1000 * m, 100 + 100 * m, IF m = 1 THEN 1 ELSE SomUnit,
         BrandName(1), 300, 1, "GY", "P1", 100, "F1") :
        c \in {"US", "us"}, s \in {"S1", "S2"}, m \in {1, 2}}

\* Rows that differ in country and in the competitor's brand, sales, share
\* and pattern.
CompetitorRows ==
    {Row(c, "S1", 1000, 200, 1, BrandName(b), 100 * v, 2 * v - 1, "GY",
         IF v = 1 THEN "P1" ELSE "P2", 50 * v, "F1") :
        c \in {"US", "CA"}, b \in {1, 2}, v \in {1, 2}}

\* Rows of one competitor that differ in the competitor's share and in the
\* tire size.
ShareRows ==
    {Row("US", s, 1000, 200, 1, BrandName(b), 100, k, "GY", "P1", 50, "F1") :
        s \in {"S1", "S2"}, b \in {1, 2}, k \in {0, SomUnit}}

\* Rows that differ in tire size and in the nullable brand name and
\* fitments.
BrandRows ==
    {Row("US", s, 1000, 200, 1, BrandName(1), 300, 1, bn,
         "P1", 100, IF bn = "GY" THEN NaN ELSE IF bn = NaN THEN "F1" ELSE "F2") :
        s \in {"S1", "S2"}, bn \in {NaN, "GY", "DL"}}

\* Every table of at most n rows of a pool.
RECURSIVE Tables(_, _)
Tables(pool, n) ==
    IF n = 0 THEN {<<>>}
    ELSE LET shorter == Tables(pool, n - 1)
         IN  shorter \cup {Append(t, r) : t \in {x \in shorter : Len(x) = n - 1},
                                          r \in pool}

\* A table of n competitor brands in one (country, tire size) pair, listed
\* from the last brand name to the first, whose sales repeat with period m.
LongTable(n, a, m) ==
    [i \in 1..n |->
        Row("US", "S1", 1000, 200, 1, BrandName(n + 1 - i),
            100 * (1 + ((a * i) % m)), 1 + (i % SomUnit), "GY",
            "P1", 10 * i, "F1")]

LongTables ==
    {LongTable(n, a, m) :
        n \in {TOP_HEAD, TOP_HEAD + Beyond, RANKING_HEAD, RANKING_HEAD + Beyond},
        a \in {1, 3},
        m \in {1, 3, RANKING_HEAD + Beyond + 1}}

\* The file has a header row and at least one record.
Datasets ==
    (Tables(MarketRows, MaxRows) \cup Tables(CompetitorRows, MaxRows)
     \cup Tables(ShareRows, MaxRows) \cup Tables(BrandRows, MaxRows)
     \cup LongTables) \ {<<>>}

\* ------------------------------------------------------------------ state

VARIABLES
    csv,    \* the records of the file Dataset/2024dataset_2countries_3tiresizes.csv
    df,     \* the table pd.read_csv loaded in the last run
    ties,   \* what this build's quicksort does with equal keys
    view,   \* every value the last run of the script computed
    last    \* the interaction that caused the last run, and whether the
            \* competitor selected before it is still offered after it

vars == <<csv, df, ties, view, last>>

\* The first run of the script in a new session.
Init ==
    /\ csv \in Datasets
    /\ df = csv
    /\ ties \in {"kept", "reversed"}
    /\ view = Script(df, ties, NoWidgets)
    /\ last = [widget |-> "load", offered |-> TRUE]


\* Rerun that keeps the filtered table as the loaded table of later runs.
RerunOnFilteredTable(widget, value) ==
    /\ view' = Script(df, ties,
                      [Widgets(view) EXCEPT ![widget].value = value])
    /\ last' = [widget |-> widget,
                offered |-> \E i \in 1..Len(view'.competitors) :
                               view'.competitors[i] = view.selected_competitor]
    /\ df' = view'.df_filtered
    /\ UNCHANGED <<csv, ties>>

\* The user changes one selectbox: Streamlit re-runs the script, which reads
\* the file again, with the session's widget state, that widget's value
\* replaced.
Rerun(widget, value) ==
    /\ df' = csv
    /\ view' = Script(csv, ties,
                      [Widgets(view) EXCEPT ![widget].value = value])
    /\ last' = [widget |-> widget,
                offered |-> \E i \in 1..Len(view'.competitors) :
                               view'.competitors[i] = view.selected_competitor]
    /\ UNCHANGED <<csv, ties>>

SelectCountry ==
    \E i \in 1..Len(view.countries) :
        /\ view.countries[i] # view.selected_countries
        /\ Rerun("countries", view.countries[i])

SelectTireSize ==
    \E i \in 1..Len(view.tire_sizes) :
        /\ view.tire_sizes[i] # view.selected_tire_size
        /\ Rerun("tire_size", view.tire_sizes[i])

SelectCompetitor ==
    \E i \in 1..Len(view.competitors) :
        /\ view.competitors[i] # view.selected_competitor
        /\ Rerun("competitor", view.competitors[i])

Next == SelectCountry \/ SelectTireSize \/ SelectCompetitor

Spec == Init /\ [][Next]_vars

\* ----------------------------------------------------------------- claims

\* What the claims read off a state.
Matches(r) ==
    /\ r.COUNTRY_OR_TERRITORY = view.selected_countries
    /\ r.TIRE_SIZE = view.selected_tire_size

\* The positions of the loaded table that match the two selections.
Matching == {i \in 1..Len(df) : Matches(df[i])}

\* The k-th smallest element of a set of positions.
Kth(S, k) == CHOOSE i \in S : Cardinality({j \in S : j <= i}) = k

BrandsIn(f) == {f[i].COMPETITOR_BRAND : i \in 1..Len(f)}

SalesOf(f, b) ==
    {f[i].COMPETITOR_BRAND_SALES : i \in {j \in 1..Len(f) : f[j].COMPETITOR_BRAND = b}}

RECURSIVE SumOfSet(_)
SumOfSet(S) ==
    IF S = {} THEN 0 ELSE LET x == CHOOSE y \in S : TRUE IN x + SumOfSet(S \ {x})

MaxOfSet(S) == CHOOSE x \in S : \A y \in S : y <= x

FirstRow(f, b) == CHOOSE i \in 1..Len(f) :
    /\ f[i].COMPETITOR_BRAND = b
    /\ \A j \in 1..(i - 1) : f[j].COMPETITOR_BRAND # b

NameIndex(b) == CHOOSE i \in 1..NBrandNames : BrandNames[i] = b

NonIncreasing(t) ==
    \A i \in 1..(Len(t) - 1) :
        t[i].COMPETITOR_BRAND_SALES >= t[i + 1].COMPETITOR_BRAND_SALES

DistinctBrands(t) ==
    \A i, j \in 1..Len(t) :
        t[i].COMPETITOR_BRAND = t[j].COMPETITOR_BRAND => i = j

\* C1: the filtered table is exactly the matching rows of the loaded table,
\* in the loaded table's order: its k-th row is the k-th matching row, so no
\* matching row is dropped and no other row is kept.
C1_FilterExact ==
    /\ Len(view.df_filtered) = Cardinality(Matching)
    /\ \A k \in 1..Len(view.df_filtered) :
           view.df_filtered[k] = df[Kth(Matching, k)]

\* C1 witness: after a selection change the filter keeps two different rows
\* in order and drops a row whose country differs from the selection in
\* case only.
C1_Witness ==
    /\ last.widget # "load"
    /\ Len(view.df_filtered) >= 2
    /\ view.df_filtered[1] # view.df_filtered[2]
    /\ view.selected_countries = "US"
    /\ \E i \in 1..Len(df) : df[i].COUNTRY_OR_TERRITORY = "us"

\* C2 (as claimed): with an empty filtered table the metric reads "0.00%",
\* the bar chart, the ranking, the brand distribution and the top-10 table
\* are empty with no undefined percentage, no callout is shown, no
\* competitor is selected and the fitments list is empty.
C2_EmptySubsetDegrades ==
    view.df_filtered = <<>> =>
        /\ view.metric = "0.00%"
        /\ view.sales_data = <<>>
        /\ view.df_competitor_sales = <<>>
        /\ view.brand_counts = <<>>
        /\ view.df_top_competitors = <<>>
        /\ view.top_competitor = <<>>
        /\ view.df_pattern_sales = <<>>
        /\ view.fitments = <<>>

\* The (TOTAL_INDUSTRY_SALES, GOODYEAR_SALES) pairs of the filtered table.
SalesPairs ==
    {<<view.df_filtered[i].TOTAL_INDUSTRY_SALES,
       view.df_filtered[i].GOODYEAR_SALES>> : i \in 1..Len(view.df_filtered)}

\* C3 (as claimed): for a (country, tire size) pair present in the table the
\* bar chart gets exactly one total industry sales value and one Goodyear
\* sales value.
C3_OneRowPerSelection ==
    view.df_filtered # <<>> =>
        /\ Len(view.sales_data) = 2
        /\ view.sales_data[1].Sales_Type = "TOTAL_INDUSTRY_SALES"
        /\ view.sales_data[2].Sales_Type = "GOODYEAR_SALES"

\* C3 (amended): the bar chart gets one total industry sales value and one
\* Goodyear sales value per distinct (TOTAL_INDUSTRY_SALES, GOODYEAR_SALES)
\* pair of the filtered table: exactly two bars, with the pair's values,
\* when the two figures are the same in every row of the subset, whatever
\* the number of rows.
C3_OneRowPerDistinctPair ==
    /\ Len(view.sales_data) = 2 * Cardinality(SalesPairs)
    /\ \A p \in SalesPairs :
           /\ \E i \in 1..Len(view.sales_data) :
                  view.sales_data[i] = [Sales_Type |-> "TOTAL_INDUSTRY_SALES",
                                        Sales_Value |-> p[1]]
           /\ \E i \in 1..Len(view.sales_data) :
                  view.sales_data[i] = [Sales_Type |-> "GOODYEAR_SALES",
                                        Sales_Value |-> p[2]]
    /\ Cardinality(SalesPairs) = 1 =>
           view.sales_data =
               <<[Sales_Type |-> "TOTAL_INDUSTRY_SALES",
                  Sales_Value |-> view.df_filtered[1].TOTAL_INDUSTRY_SALES],
                 [Sales_Type |-> "GOODYEAR_SALES",
                  Sales_Value |-> view.df_filtered[1].GOODYEAR_SALES]>>

\* C3 witness: after a selection change, several different competitor rows
\* of one pair whose market figures agree give two bars.
C3_Witness ==
    /\ last.widget # "load"
    /\ Len(view.df_filtered) >= 2
    /\ view.df_filtered[1] # view.df_filtered[2]
    /\ Cardinality(SalesPairs) = 1
    /\ Len(view.sales_data) = 2

\* C4: the ranking has at most 35 entries, one per competitor brand, each
\* with the sum of the brand's distinct sales values, in non-increasing
\* order; it holds every brand when there are at most 35, and no brand left
\* out has a larger sum than a brand in it.
C4_RankingTop35 ==
    LET r == view.df_competitor_sales
        f == view.df_filtered
        shown == BrandsIn(r)
    IN  /\ Len(r) <= RANKING_HEAD
        /\ Len(r) = Min(RANKING_HEAD, Cardinality(BrandsIn(f)))
        /\ DistinctBrands(r)
        /\ shown \subseteq BrandsIn(f)
        /\ \A i \in 1..Len(r) :
               r[i].COMPETITOR_BRAND_SALES =
                   SumOfSet(SalesOf(f, r[i].COMPETITOR_BRAND))
        /\ NonIncreasing(r)
        /\ \A b \in BrandsIn(f) \ shown : \A i \in 1..Len(r) :
               SumOfSet(SalesOf(f, b)) <= r[i].COMPETITOR_BRAND_SALES

\* C4 witness: more than 35 brands with different sums, 35 of them ranked.
C4_Witness ==
    /\ Cardinality(BrandsIn(view.df_filtered)) > RANKING_HEAD
    /\ Len(view.df_competitor_sales) = RANKING_HEAD
    /\ view.df_competitor_sales[1].COMPETITOR_BRAND_SALES
           > view.df_competitor_sales[RANKING_HEAD].COMPETITOR_BRAND_SALES

\* C5: the top-10 table has at most 10 rows, one per competitor brand, each
\* with the brand's largest sales, in non-increasing order; no brand left
\* out has larger sales than a brand in it; the callouts are the brand and
\* the formatted share of the first row, a brand with the largest sales of
\* the subset, and are not shown for an empty table.
C5_TopTenAndCallouts ==
    LET t == view.df_top_competitors
        f == view.df_filtered
        shown == BrandsIn(t)
    IN  /\ Len(t) <= TOP_HEAD
        /\ Len(t) = Min(TOP_HEAD, Cardinality(BrandsIn(f)))
        /\ DistinctBrands(t)
        /\ shown \subseteq BrandsIn(f)
        /\ \A i \in 1..Len(t) :
               t[i].COMPETITOR_BRAND_SALES =
                   MaxOfSet(SalesOf(f, t[i].COMPETITOR_BRAND))
        /\ NonIncreasing(t)
        /\ \A b \in BrandsIn(f) \ shown : \A i \in 1..Len(t) :
               MaxOfSet(SalesOf(f, b)) <= t[i].COMPETITOR_BRAND_SALES
        /\ t = <<>> => view.top_competitor = <<>>
        /\ t # <<>> =>
               /\ view.top_competitor =
                      <<t[1].COMPETITOR_BRAND, t[1].COMPETITOR_SOM>>
               /\ \A i \in 1..Len(f) :
                      f[i].COMPETITOR_BRAND_SALES
                          <= MaxOfSet(SalesOf(f, view.top_competitor[1]))

\* C5 witness: more than 10 brands with different sales, 10 of them in the
\* table and the callouts shown.
C5_Witness ==
    /\ Cardinality(BrandsIn(view.df_filtered)) > TOP_HEAD
    /\ Len(view.df_top_competitors) = TOP_HEAD
    /\ view.df_top_competitors[1].COMPETITOR_BRAND_SALES
           > view.df_top_competitors[TOP_HEAD].COMPETITOR_BRAND_SALES
    /\ Len(view.top_competitor) = 2

\* C6: the competitor of the pattern breakdown is a brand of the top-10
\* table of the current selections, hence of a row that matches them, and
\* the breakdown holds that brand's patterns only; with an empty top-10
\* table no competitor is selected and the breakdown is empty.
C6_CompetitorFromCurrentTop10 ==
    LET t == view.df_top_competitors
        c == view.selected_competitor
    IN  /\ view.competitors = Column(t, "COMPETITOR_BRAND")
        /\ t = <<>> => c = None /\ view.df_pattern_sales = <<>>
        /\ t # <<>> =>
               /\ c \in BrandsIn(t)
               /\ \E i \in Matching : df[i].COMPETITOR_BRAND = c
               /\ view.df_pattern_sales # <<>>
               /\ \A k \in 1..Len(view.df_pattern_sales) :
                      \E i \in Matching :
                          /\ df[i].COMPETITOR_BRAND = c
                          /\ df[i].COMPETITOR_PATTERN =
                                 view.df_pattern_sales[k].COMPETITOR_PATTERN
                          /\ df[i].COMPETITOR_PATTERN_SALES =
                                 view.df_pattern_sales[k].COMPETITOR_PATTERN_SALES

\* C6 witness: a change of country or tire size after which the competitor
\* selected before is no longer offered, and another one is selected.
C6_Witness ==
    /\ last.widget \in {"countries", "tire_size"}
    /\ ~last.offered
    /\ view.selected_competitor # None

\* C7 (as claimed): when every share of the filtered table is in [0, 1] the
\* metric is a number in [0, 100], also for a table with no rows.
C7_MetricInRange ==
    (\A i \in 1..Len(view.df_filtered) :
        view.df_filtered[i].SOM_OF_BRAND \in 0..SomUnit)
    => /\ ~view.market_share.nan
       /\ 0 <= view.market_share.num * 100
       /\ view.market_share.num * 100 <= 100 * view.market_share.den

\* The rows of the filtered table that have a brand name.
Named == {i \in 1..Len(view.df_filtered) : view.df_filtered[i].BRAND_NAME # NaN}

\* C8: the distribution has one row per brand name of the filtered table,
\* none for a missing name; a brand's percentage is its number of rows over
\* the number of rows that have a brand name, times 100; the percentages of
\* a non-empty distribution sum to 100, and a table whose brand names are
\* all missing gives an empty distribution.
C8_BrandDistribution ==
    LET b == view.brand_counts
        f == view.df_filtered
    IN  /\ {b[i].BRAND_NAME : i \in 1..Len(b)} = {f[i].BRAND_NAME : i \in Named}
        /\ \A i, j \in 1..Len(b) : b[i].BRAND_NAME = b[j].BRAND_NAME => i = j
        /\ \A i \in 1..Len(b) :
               /\ b[i].COUNT =
                      Cardinality({j \in Named : f[j].BRAND_NAME = b[i].BRAND_NAME})
               /\ b[i].PERCENTAGE = Ratio(100 * b[i].COUNT, Cardinality(Named))
        /\ b # <<>> =>
               SumSeq([i \in 1..Len(b) |-> b[i].PERCENTAGE.num])
                   = 100 * Cardinality(Named)
        /\ Named = {} => b = <<>>

\* C8 witness: a filtered table with a row without brand name and rows of
\* two brands.
C8_Witness ==
    /\ Cardinality(Named) < Len(view.df_filtered)
    /\ Len(view.brand_counts) = 2

TiesByFirstRow(t) ==
    \A i \in 1..(Len(t) - 1) :
        t[i].COMPETITOR_BRAND_SALES = t[i + 1].COMPETITOR_BRAND_SALES
        => FirstRow(view.df_filtered, t[i].COMPETITOR_BRAND)
               < FirstRow(view.df_filtered, t[i + 1].COMPETITOR_BRAND)

TiesByName(t) ==
    \A i \in 1..(Len(t) - 1) :
        t[i].COMPETITOR_BRAND_SALES = t[i + 1].COMPETITOR_BRAND_SALES
        => NameIndex(t[i].COMPETITOR_BRAND) < NameIndex(t[i + 1].COMPETITOR_BRAND)

\* C9 (as claimed), for a sort that keeps equal keys in input order: brands
\* with equal sales appear, in the ranking and in the top-10 table, in the
\* order of their first rows in the filtered table.
C9_TiesInFirstOccurrenceOrder ==
    ties = "kept" =>
        /\ TiesByFirstRow(view.df_competitor_sales)
        /\ TiesByFirstRow(view.df_top_competitors)

\* C9 (amended): the rows handed to the sort are in brand-name order, not in
\* the order of the data; with a sort that keeps equal keys in input order
\* brands with equal sales appear in ascending brand-name order, the tied
\* brand kept at the cut-off is the one with the smaller name, and the top
\* competitor is the first by name of the brands with the largest sales.
C9_TiesInBrandNameOrder ==
    LET t == view.df_top_competitors
        r == view.df_competitor_sales
        f == view.df_filtered
    IN  ties = "kept" =>
            /\ TiesByName(r)
            /\ TiesByName(t)
            /\ \A b \in BrandsIn(f) \ BrandsIn(r) :
                   SumOfSet(SalesOf(f, b)) = r[Len(r)].COMPETITOR_BRAND_SALES
                   => NameIndex(r[Len(r)].COMPETITOR_BRAND) < NameIndex(b)
            /\ \A b \in BrandsIn(f) \ BrandsIn(t) :
                   MaxOfSet(SalesOf(f, b)) = t[Len(t)].COMPETITOR_BRAND_SALES
                   => NameIndex(t[Len(t)].COMPETITOR_BRAND) < NameIndex(b)
            /\ \A b \in BrandsIn(f) :
                   MaxOfSet(SalesOf(f, b)) = t[1].COMPETITOR_BRAND_SALES
                   => NameIndex(view.top_competitor[1]) <= NameIndex(b)

\* C9 witness: the sort keeps equal keys in input order, the first two rows
\* of the top-10 table tie and the second one's brand comes first in the
\* data, and a brand left out at the cut-off ties with the last row and
\* comes before it in the data.
C9_Witness ==
    LET t == view.df_top_competitors
        f == view.df_filtered
    IN  /\ ties = "kept"
        /\ Len(t) = TOP_HEAD
        /\ t[1].COMPETITOR_BRAND_SALES = t[2].COMPETITOR_BRAND_SALES
        /\ FirstRow(f, t[2].COMPETITOR_BRAND) < FirstRow(f, t[1].COMPETITOR_BRAND)
        /\ \E b \in BrandsIn(f) \ BrandsIn(t) :
               /\ MaxOfSet(SalesOf(f, b)) = t[TOP_HEAD].COMPETITOR_BRAND_SALES
               /\ FirstRow(f, b) < FirstRow(f, t[TOP_HEAD].COMPETITOR_BRAND)

\* Every rendered value, computed from the records of the file and the
\* three current selections alone.
RenderedFromSelections ==
    LET f == Filter(csv, view.selected_countries, view.selected_tire_size)
        top == TopCompetitors(f, ties)
    IN  /\ view.df_filtered = f
        /\ view.sales_data = SalesData(f)
        /\ view.market_share = MarketShare(f)
        /\ view.metric = Metric(MarketShare(f))
        /\ view.df_competitor_sales = CompetitorSales(f, ties)
        /\ view.brand_counts = BrandCounts(f, ties)
        /\ view.df_top_competitors = top
        /\ view.top_competitor = TopCompetitor(top)
        /\ view.df_pattern_sales = PatternSales(f, view.selected_competitor)
        /\ view.fitments = Fitments(f)

\* C10: after the first run and after every later run, the loaded table is
\* the file's records, none added, changed or removed, and every rendered
\* value is the value computed from them and the current selections alone,
\* whatever was selected before.
C10_RendersStateless ==
    /\ df = csv
    /\ RenderedFromSelections

\* C10 witness: selections were changed and changed back, and the page shows
\* what it showed when it was first loaded.
C10_Witness ==
    /\ last.widget # "load"
    /\ view = Script(csv, ties, NoWidgets)
    /\ Len(view.df_filtered) < Len(csv)

====
